---- MODULE Spec2Model ----
(***************************************************************************)
(* Model of the instrumentation registry (registerInstrumentation over the *)
(* pkgs table) and of the ESM loader hooks built on it (globalPreload, the *)
(* main-thread port.onmessage handler, resolve, load and wrapEsmSource).   *)
(*                                                                         *)
(* JavaScript values are modelled as follows: undefined is the string      *)
(* "undefined", a missing options object is the record NullOpts, an        *)
(* object is a record, an array is a sequence, the prototype-less object   *)
(* pkgs and the Map registeredSpecifiers are functions whose DOMAIN is the *)
(* set of keys present.  URLs handled by the hooks are file: URLs of       *)
(* importable modules, plus one builtin.                                   *)
(***************************************************************************)
EXTENDS Integers, Sequences, FiniteSets, TLC

\* ---------------------------------------------------------------- bounds
\* number of external calls (registerInstrumentation, resolve, load)
MaxOps == 4
\* number of registerInstrumentation calls made by instrumentation code
MaxRegs == 2
\* nesting depth of load calls that wait for their probe import
MaxDepth == 2
\* createContextManager calls in a run
MaxCalls == 3
\* descriptor objects in a run, and assignments the application makes to them
MaxObjs == 4
MaxMutations == 2

Undefined == "undefined"

\* -------------------------------------------------- environment (inputs)
\* options objects handed to registerInstrumentation
NullOpts == [null |-> TRUE]

\* a descriptor object: every property is present, Undefined when not given
Desc(moduleName, onRequire, onResolved) ==
  [moduleName |-> moduleName, onRequire |-> onRequire,
   onResolved |-> onResolved, specifier |-> Undefined]

ValidInputs ==
  {Desc("pg", "onRequire", Undefined), Desc("pg", Undefined, "onResolved"),
   Desc("mysql", "onRequire", "onResolved"), Desc("mysql2", "onRequire", Undefined)}

InvalidInputs ==
  {NullOpts, Desc(Undefined, "onRequire", Undefined), Desc("", Undefined, "onResolved"),
   Desc("pg", Undefined, Undefined)}

RegisterInputs == ValidInputs \cup InvalidInputs

PgUrl     == "file:///nm/pg/index.js"
MysqlUrl  == "file:///nm/mysql/index.mjs"
FsUrl     == "node:fs"
AppUrl    == "file:///app/main.mjs"
LoaderUrl == "file:///nm/newrelic/esm-loader.mjs"
EsmShimHref == "file:///nm/newrelic/lib/esm-shim.mjs"

\* import specifiers seen by the resolve hook; MysqlUrl is the specifier of
\* the import(url) that wrapEsmSource issues
\* an import of a module by its absolute path
PgPath == "/nm/pg/index.js"
Specifiers == {"pg", "mysql", "mysql2", "node:fs", MysqlUrl, PgPath}

NoContext == [none |-> TRUE]
ResolveContexts ==
  {NoContext, [parentURL |-> Undefined], [parentURL |-> AppUrl],
   [parentURL |-> LoaderUrl]}

LoadContexts == {[format |-> Undefined], [format |-> "module"]}
LoadUrls == {PgUrl, MysqlUrl}

\* process.version values, as <<major, minor, patch>>
Versions == {<<16, 11, 1>>, <<16, 12, 0>>, <<18, 0, 0>>}

\* export names (Object.keys of the namespace) of the modules on disk
ExportNames(url) ==
  IF url = MysqlUrl THEN <<"default", "createConnection">> ELSE <<"default">>

\* ------------------------------------------------------------------ state
VARIABLES
  agent,                 \* newrelic.agent is present
  version,               \* process.version
  pkgs,                  \* registry: module name -> sequence of descriptors
  registeredSpecifiers,  \* Map: url -> { specifier, hasNrInstrumentation }
  preloadPort,           \* Undefined until globalPreload ran
  onmessageSet,          \* the preload code ran: port.onmessage is installed
  queue,                 \* messages posted on the port, not yet delivered
  stack,                 \* load calls suspended in wrapEsmSource (await import)
  nOps, nRegs,           \* call counters (bounded)
  nPosted,               \* number of postMessage calls so far
  firstWrite,            \* url -> specifier of the first registeredSpecifiers.set
  resolvedUrls,          \* urls that resolve calls have returned so far
  qualified,             \* url -> specifier of the first resolve call from outside
                         \* this file that met an ES module with a descriptor
  last,                  \* the call that completed last, with its pre-state
  created,               \* the createContextManager calls made so far
  heap,                  \* descriptor objects by identity: heap[id] is the object
  refs,                  \* the registry as references: module name -> ids
  appObjs,               \* ids of the objects the application holds
  nMut,                  \* assignments made by the application
  stores,                \* <<passed, stored>> for each registration that stored
  objLast                \* the last step on the objects, with the heap before it

vars == <<agent, version, pkgs, registeredSpecifiers, preloadPort, onmessageSet,
          queue, stack, nOps, nRegs, nPosted, firstWrite, resolvedUrls, qualified,
          last, created, heap, refs, appObjs, nMut, stores, objLast>>

\* the state of the loader and of the registry as a table of values
loaderVars == <<agent, version, pkgs, registeredSpecifiers, preloadPort, onmessageSet,
                queue, stack, nOps, nRegs, nPosted, firstWrite, resolvedUrls,
                qualified, last>>

\* the state of the registry as a store of objects
objVars == <<heap, refs, appObjs, nMut, stores, objLast>>

\* the state of the units that are exercised on their own
unitVars == <<created, objVars>>

EmptyTable == [k \in {} |-> <<>>]

\* ------------------------------------------------------------- registry
\* the canonical registry key of an import specifier
getInstrumentationNameFromModuleName(moduleName) ==
  IF moduleName = "mysql2" THEN "mysql" ELSE moduleName

\* variant: the test for the two hooks is missing
hasValidRegisterOptions_noHookCheck(opts) ==
  IF opts = NullOpts THEN FALSE
  ELSE IF opts.moduleName \in {Undefined, ""} THEN FALSE
  ELSE TRUE

hasValidRegisterOptions(opts) ==
  IF opts = NullOpts THEN FALSE
  ELSE IF opts.moduleName \in {Undefined, ""} THEN FALSE
  ELSE IF opts.onRequire = Undefined /\ opts.onResolved = Undefined THEN FALSE
  ELSE TRUE

\* variant: the descriptor is stored under the canonical name of its module
registerInstrumentation_canonicalKey(p, opts) ==
  IF ~hasValidRegisterOptions(opts) THEN p
  ELSE LET name == getInstrumentationNameFromModuleName(opts.moduleName)
           p1 == IF name \notin DOMAIN p THEN p @@ (name :> <<>>) ELSE p
       IN  [p1 EXCEPT ![name] = Append(@, opts)]

\* p is the pkgs table the call starts from; the value is the table it leaves
registerInstrumentation(p, opts) ==
  IF ~hasValidRegisterOptions(opts) THEN p
  ELSE LET name == opts.moduleName
           p1 == IF name \notin DOMAIN p THEN p @@ (name :> <<>>) ELSE p
       IN  [p1 EXCEPT ![name] = Append(@, opts)]

\* ---------------------------------------------------- host and next hooks
\* semver.gte on <<major, minor, patch>>
SemverGte(a, b) ==
  \/ a[1] > b[1]
  \/ a[1] = b[1] /\ a[2] > b[2]
  \/ a[1] = b[1] /\ a[2] = b[2] /\ a[3] >= b[3]

\* variant: only the major version is compared
isSupportedVersion_majorOnly == version[1] >= 16

isSupportedVersion == SemverGte(version, <<16, 12, 0>>)

\* context.parentURL.includes('newrelic/esm-loader.mjs')
IncludesLoaderPath(parentURL) == parentURL \in {LoaderUrl}

\* variant: the parent is compared with the shim's file, not this file
isFromEsmLoader_shimPath(context) ==
  /\ context # NoContext
  /\ context.parentURL # Undefined
  /\ context.parentURL = EsmShimHref

isFromEsmLoader(context) ==
  /\ context # NoContext
  /\ context.parentURL # Undefined
  /\ IncludesLoaderPath(context.parentURL)

FormatOf(url) ==
  CASE url = PgUrl    -> "commonjs"
    [] url = MysqlUrl -> "module"
    [] OTHER          -> "builtin"

\* the default resolver: specifier -> { url, format }
nextResolve(specifier, context) ==
  LET url == CASE specifier \in {"pg", PgPath} -> PgUrl
               [] specifier \in {"mysql", "mysql2", MysqlUrl} -> MysqlUrl
               [] OTHER -> FsUrl
  IN  [url |-> url, format |-> FormatOf(url)]

\* the default loader: the result depends on the url and on the context
nextLoad(url, context) ==
  [format |-> FormatOf(url), source |-> [original |-> url, loadedWith |-> context]]

\* fileURLToPath strips the file:// scheme; it throws for any other scheme
FilePaths == (PgUrl :> "/nm/pg/index.js") @@ (MysqlUrl :> "/nm/mysql/index.mjs")
fileURLToPathThrows(url) == url \notin DOMAIN FilePaths
fileURLToPath(url) == FilePaths[url]

\* ---------------------------------------------------------- loader hooks
\* variant: the url of an instrumented module is returned with a query
\* parameter that marks it for the load hook
TaggedMysqlUrl == "file:///nm/mysql/index.mjs?hasNrInstrumentation=true"
resolve_taggedUrl(specifier, context) ==
  LET resolvedModule == nextResolve(specifier, context)
      url == resolvedModule.url
      format == resolvedModule.format
      instrumentationName == getInstrumentationNameFromModuleName(specifier)
      base == [outcome |-> "returned", result |-> resolvedModule,
               nextArgs |-> << <<specifier, context>> >>,
               set |-> <<>>, post |-> <<>>, readRegistry |-> FALSE]
      typeError == [base EXCEPT !.outcome = "threw",
                                !.result = [error |-> "TypeError"]]
  IN  IF ~agent \/ ~isSupportedVersion \/ isFromEsmLoader(context)
      THEN base
      ELSE IF url \in DOMAIN registeredSpecifiers
      THEN IF fileURLToPathThrows(url) THEN typeError ELSE base
      ELSE IF format = "module"
      THEN IF instrumentationName \in DOMAIN pkgs
           THEN [base EXCEPT !.readRegistry = TRUE,
                             !.result = [resolvedModule EXCEPT !.url = TaggedMysqlUrl],
                             !.set = << <<url, [specifier |-> specifier,
                                               hasNrInstrumentation |-> TRUE]>> >>]
           ELSE [base EXCEPT !.readRegistry = TRUE]
      ELSE IF format = "commonjs"
      THEN IF fileURLToPathThrows(url) \/ preloadPort = Undefined
           THEN typeError
           ELSE [base EXCEPT !.post =
                   << [specifier |-> specifier, resolvedModule |-> resolvedModule,
                       filePath |-> fileURLToPath(url)] >>]
      ELSE base

\* variant: the two format branches are exchanged
resolve_swappedFormats(specifier, context) ==
  LET resolvedModule == nextResolve(specifier, context)
      url == resolvedModule.url
      format == resolvedModule.format
      instrumentationName == getInstrumentationNameFromModuleName(specifier)
      base == [outcome |-> "returned", result |-> resolvedModule,
               nextArgs |-> << <<specifier, context>> >>,
               set |-> <<>>, post |-> <<>>, readRegistry |-> FALSE]
      typeError == [base EXCEPT !.outcome = "threw",
                                !.result = [error |-> "TypeError"]]
  IN  IF ~agent \/ ~isSupportedVersion \/ isFromEsmLoader(context)
      THEN base
      ELSE IF url \in DOMAIN registeredSpecifiers
      THEN IF fileURLToPathThrows(url) THEN typeError ELSE base
      ELSE IF format = "commonjs"
      THEN IF instrumentationName \in DOMAIN pkgs
           THEN [base EXCEPT !.readRegistry = TRUE,
                             !.set = << <<url, [specifier |-> specifier,
                                               hasNrInstrumentation |-> TRUE]>> >>]
           ELSE [base EXCEPT !.readRegistry = TRUE]
      ELSE IF format = "module"
      THEN IF fileURLToPathThrows(url) \/ preloadPort = Undefined
           THEN typeError
           ELSE [base EXCEPT !.post =
                   << [specifier |-> specifier, resolvedModule |-> resolvedModule,
                       filePath |-> fileURLToPath(url)] >>]
      ELSE base

\* variant: a url resolved again is recorded again, without the flag
resolve_skipDropsFlag(specifier, context) ==
  LET resolvedModule == nextResolve(specifier, context)
      url == resolvedModule.url
      format == resolvedModule.format
      instrumentationName == getInstrumentationNameFromModuleName(specifier)
      base == [outcome |-> "returned", result |-> resolvedModule,
               nextArgs |-> << <<specifier, context>> >>,
               set |-> <<>>, post |-> <<>>, readRegistry |-> FALSE]
      typeError == [base EXCEPT !.outcome = "threw",
                                !.result = [error |-> "TypeError"]]
  IN  IF ~agent \/ ~isSupportedVersion \/ isFromEsmLoader(context)
      THEN base
      ELSE IF url \in DOMAIN registeredSpecifiers
      THEN IF fileURLToPathThrows(url) THEN typeError
           ELSE [base EXCEPT !.set = << <<url, [specifier |-> specifier,
                                               hasNrInstrumentation |-> FALSE]>> >>]
      ELSE IF format = "module"
      THEN IF instrumentationName \in DOMAIN pkgs
           THEN [base EXCEPT !.readRegistry = TRUE,
                             !.set = << <<url, [specifier |-> specifier,
                                               hasNrInstrumentation |-> TRUE]>> >>]
           ELSE [base EXCEPT !.readRegistry = TRUE]
      ELSE IF format = "commonjs"
      THEN IF fileURLToPathThrows(url) \/ preloadPort = Undefined
           THEN typeError
           ELSE [base EXCEPT !.post =
                   << [specifier |-> specifier, resolvedModule |-> resolvedModule,
                       filePath |-> fileURLToPath(url)] >>]
      ELSE base

\* variant: the test for an already recorded url is missing
resolve_noSkip(specifier, context) ==
  LET resolvedModule == nextResolve(specifier, context)
      url == resolvedModule.url
      format == resolvedModule.format
      instrumentationName == getInstrumentationNameFromModuleName(specifier)
      base == [outcome |-> "returned", result |-> resolvedModule,
               nextArgs |-> << <<specifier, context>> >>,
               set |-> <<>>, post |-> <<>>, readRegistry |-> FALSE]
      typeError == [base EXCEPT !.outcome = "threw",
                                !.result = [error |-> "TypeError"]]
  IN  IF ~agent \/ ~isSupportedVersion \/ isFromEsmLoader(context)
      THEN base
      ELSE IF format = "module"
      THEN IF instrumentationName \in DOMAIN pkgs
           THEN [base EXCEPT !.readRegistry = TRUE,
                             !.set = << <<url, [specifier |-> specifier,
                                               hasNrInstrumentation |-> TRUE]>> >>]
           ELSE [base EXCEPT !.readRegistry = TRUE]
      ELSE IF format = "commonjs"
      THEN IF fileURLToPathThrows(url) \/ preloadPort = Undefined
           THEN typeError
           ELSE [base EXCEPT !.post =
                   << [specifier |-> specifier, resolvedModule |-> resolvedModule,
                       filePath |-> fileURLToPath(url)] >>]
      ELSE base

\* variant: an ES module gets its record whether or not a descriptor is registered
resolve_recordsAnyModule(specifier, context) ==
  LET resolvedModule == nextResolve(specifier, context)
      url == resolvedModule.url
      format == resolvedModule.format
      instrumentationName == getInstrumentationNameFromModuleName(specifier)
      base == [outcome |-> "returned", result |-> resolvedModule,
               nextArgs |-> << <<specifier, context>> >>,
               set |-> <<>>, post |-> <<>>, readRegistry |-> FALSE]
      typeError == [base EXCEPT !.outcome = "threw",
                                !.result = [error |-> "TypeError"]]
  IN  IF ~agent \/ ~isSupportedVersion \/ isFromEsmLoader(context)
      THEN base
      ELSE IF url \in DOMAIN registeredSpecifiers
      THEN IF fileURLToPathThrows(url) THEN typeError ELSE base
      ELSE IF format = "module"
      THEN IF TRUE
           THEN [base EXCEPT !.readRegistry = TRUE,
                             !.set = << <<url, [specifier |-> specifier,
                                               hasNrInstrumentation |-> TRUE]>> >>]
           ELSE [base EXCEPT !.readRegistry = TRUE]
      ELSE IF format = "commonjs"
      THEN IF fileURLToPathThrows(url) \/ preloadPort = Undefined
           THEN typeError
           ELSE [base EXCEPT !.post =
                   << [specifier |-> specifier, resolvedModule |-> resolvedModule,
                       filePath |-> fileURLToPath(url)] >>]
      ELSE base

\* What one resolve call does, from the current state: its outcome, the value
\* it returns, the calls it makes to nextResolve, the entries it sets in
\* registeredSpecifiers, the messages it posts and whether it read pkgs.
resolve(specifier, context) ==
  LET resolvedModule == nextResolve(specifier, context)
      url == resolvedModule.url
      format == resolvedModule.format
      instrumentationName == getInstrumentationNameFromModuleName(specifier)
      base == [outcome |-> "returned", result |-> resolvedModule,
               nextArgs |-> << <<specifier, context>> >>,
               set |-> <<>>, post |-> <<>>, readRegistry |-> FALSE]
      typeError == [base EXCEPT !.outcome = "threw",
                                !.result = [error |-> "TypeError"]]
  IN  IF ~agent \/ ~isSupportedVersion \/ isFromEsmLoader(context)
      THEN base
      ELSE IF url \in DOMAIN registeredSpecifiers
      THEN IF fileURLToPathThrows(url) THEN typeError ELSE base
      ELSE IF format = "module"
      THEN IF instrumentationName \in DOMAIN pkgs
           THEN [base EXCEPT !.readRegistry = TRUE,
                             !.set = << <<url, [specifier |-> specifier,
                                               hasNrInstrumentation |-> TRUE]>> >>]
           ELSE [base EXCEPT !.readRegistry = TRUE]
      ELSE IF format = "commonjs"
      THEN IF fileURLToPathThrows(url) \/ preloadPort = Undefined
           THEN typeError
           ELSE [base EXCEPT !.post =
                   << [specifier |-> specifier, resolvedModule |-> resolvedModule,
                       filePath |-> fileURLToPath(url)] >>]
      ELSE base

\* variant: the original source is fetched from nextLoad before it is rewritten
load_readsOriginal(url, context) ==
  LET delegate == [kind |-> "delegate", result |-> nextLoad(url, context),
                   nextArgs |-> << <<url, context>> >>, specifier |-> Undefined]
  IN  IF ~agent \/ ~isSupportedVersion THEN delegate
      ELSE IF url \notin DOMAIN registeredSpecifiers THEN delegate
      ELSE IF ~registeredSpecifiers[url].hasNrInstrumentation THEN delegate
      ELSE [kind |-> "rewrite", result |-> Undefined,
            nextArgs |-> << <<url, context>> >>,
            specifier |-> registeredSpecifiers[url].specifier]

\* What one load call does up to its first suspension: it either delegates to
\* nextLoad and returns, or enters wrapEsmSource and awaits import(url).
load(url, context) ==
  LET delegate == [kind |-> "delegate", result |-> nextLoad(url, context),
                   nextArgs |-> << <<url, context>> >>, specifier |-> Undefined]
  IN  IF ~agent \/ ~isSupportedVersion THEN delegate
      ELSE IF url \notin DOMAIN registeredSpecifiers THEN delegate
      ELSE IF ~registeredSpecifiers[url].hasNrInstrumentation THEN delegate
      ELSE [kind |-> "rewrite", result |-> Undefined, nextArgs |-> <<>>,
            specifier |-> registeredSpecifiers[url].specifier]

\* variant: the default export is left out of the forwarding exports
wrapEsmSource_noDefault(url, specifier, props) ==
  LET named == SelectSeq(props, LAMBDA name : name # "default")
  IN  [importShim |-> EsmShimHref,
       importOriginal |-> url,
       wrapModule |-> [specifier |-> specifier, trimmedUrl |-> fileURLToPath(url)],
       exports |-> [i \in 1..Len(named) |->
                      [local |-> <<"_", named[i]>>, value |-> <<"_wrappedModule", named[i]>>,
                       exported |-> named[i]]]]

\* the source text built once import(url) has produced the namespace, whose
\* Object.keys are props
wrapEsmSource(url, specifier, props) ==
  [importShim |-> EsmShimHref,
   importOriginal |-> url,
   wrapModule |-> [specifier |-> specifier, trimmedUrl |-> fileURLToPath(url)],
   exports |-> [i \in 1..Len(props) |->
                  [local |-> <<"_", props[i]>>, value |-> <<"_wrappedModule", props[i]>>,
                   exported |-> props[i]]]]

\* the value load returns after wrapEsmSource
loadOverride(url, specifier, props) ==
  [format |-> "module", source |-> wrapEsmSource(url, specifier, props),
   shortCircuit |-> TRUE]

\* ------------------------------------------------- main-thread handler
\* instrumentationDefinitionCopy.forEach: the copy array holds the stored
\* descriptor objects themselves, so the assignments to copy.moduleName and
\* copy.specifier change the i-th descriptor stored under name, and
\* registerInstrumentation then pushes a snapshot of it under filePath.
\* variant: the copies keep the specifier of their original
RECURSIVE forEachCopy_noSpecifier(_, _, _, _, _, _)
forEachCopy_noSpecifier(p, name, n, i, specifier, filePath) ==
  IF i > n THEN p
  ELSE LET copy == [p[name][i] EXCEPT !.moduleName = filePath]
           p1 == [p EXCEPT ![name][i] = copy]
       IN  forEachCopy_noSpecifier(registerInstrumentation(p1, copy), name, n, i + 1,
                                   specifier, filePath)

RECURSIVE forEachCopy(_, _, _, _, _, _)
forEachCopy(p, name, n, i, specifier, filePath) ==
  IF i > n THEN p
  ELSE LET copy == [p[name][i] EXCEPT !.moduleName = filePath,
                                      !.specifier = specifier]
           p1 == [p EXCEPT ![name][i] = copy]
       IN  forEachCopy(registerInstrumentation(p1, copy), name, n, i + 1,
                       specifier, filePath)

\* port.onmessage: the pkgs table the handler leaves
onmessage(details) ==
  LET instrumentationName == getInstrumentationNameFromModuleName(details.specifier)
  IN  IF instrumentationName \notin DOMAIN pkgs THEN pkgs
      ELSE forEachCopy(pkgs, instrumentationName, Len(pkgs[instrumentationName]),
                       1, details.specifier, details.filePath)

\* ------------------------------------------------------------- actions
Init ==
  /\ agent \in BOOLEAN
  /\ version \in Versions
  /\ pkgs = EmptyTable
  /\ registeredSpecifiers = EmptyTable
  /\ preloadPort = Undefined
  /\ onmessageSet = FALSE
  /\ queue = <<>>
  /\ stack = <<>>
  /\ nOps = 0
  /\ nRegs = 0
  /\ nPosted = 0
  /\ firstWrite = EmptyTable
  /\ resolvedUrls = {}
  /\ qualified = EmptyTable
  /\ last = [op |-> "init"]
  /\ created = <<>>
  /\ heap = <<>>
  /\ refs = EmptyTable
  /\ appObjs = {}
  /\ nMut = 0
  /\ stores = {}
  /\ objLast = [op |-> "init"]

\* the url holds a Resolution Record marked hasNrInstrumentation
Marked(url) ==
  /\ url \in DOMAIN registeredSpecifiers
  /\ registeredSpecifiers[url].hasNrInstrumentation

\* Map.set for each entry of a sequence of <<key, value>> pairs
RECURSIVE MapSetAll(_, _)
MapSetAll(m, sets) ==
  IF sets = <<>> THEN m
  ELSE LET k == Head(sets)[1]
           v == Head(sets)[2]
           m1 == IF k \in DOMAIN m THEN [m EXCEPT ![k] = v] ELSE m @@ (k :> v)
       IN  MapSetAll(m1, Tail(sets))

\* the first specifier set for each url, for urls not yet written
RECURSIVE NoteFirst(_, _)
NoteFirst(f, sets) ==
  IF sets = <<>> THEN f
  ELSE LET k == Head(sets)[1]
           f1 == IF k \in DOMAIN f THEN f ELSE f @@ (k :> Head(sets)[2].specifier)
       IN  NoteFirst(f1, Tail(sets))

\* a resolve call made from outside this file meets an ES module while the
\* registry holds a descriptor for its specifier
Qualifies(specifier, context) ==
  /\ ~(context # NoContext /\ context.parentURL = LoaderUrl)
  /\ nextResolve(specifier, context).format = "module"
  /\ getInstrumentationNameFromModuleName(specifier) \in DOMAIN pkgs

\* one call of the resolve hook, applied to the state
DoResolve(specifier, context) ==
  LET e == resolve(specifier, context)
  IN  /\ registeredSpecifiers' = MapSetAll(registeredSpecifiers, e.set)
      /\ firstWrite' = NoteFirst(firstWrite, e.set)
      /\ queue' = queue \o e.post
      /\ nPosted' = nPosted + Len(e.post)
      /\ resolvedUrls' = IF e.outcome = "returned"
                         THEN resolvedUrls \cup {e.result.url} ELSE resolvedUrls
      /\ qualified' = IF Qualifies(specifier, context)
                         /\ nextResolve(specifier, context).url \notin DOMAIN qualified
                      THEN qualified @@ (nextResolve(specifier, context).url :> specifier)
                      ELSE qualified
      /\ last' = [op |-> "resolve", specifier |-> specifier, context |-> context,
                  outcome |-> e.outcome, result |-> e.result,
                  nextArgs |-> e.nextArgs, readRegistry |-> e.readRegistry,
                  preRS |-> registeredSpecifiers, preQueue |-> queue]

\* instrumentation code calls registerInstrumentation(opts)
Register(opts) ==
  /\ nOps < MaxOps
  /\ nRegs < MaxRegs
  /\ pkgs' = registerInstrumentation(pkgs, opts)
  /\ nOps' = nOps + 1
  /\ nRegs' = nRegs + 1
  /\ last' = [op |-> "register", opts |-> opts, outcome |-> "returned",
              prePkgs |-> pkgs]
  /\ UNCHANGED <<agent, version, registeredSpecifiers, preloadPort, onmessageSet,
                 queue, stack, nPosted, firstWrite, resolvedUrls,
                 qualified>>
  /\ UNCHANGED unitVars

\* the host calls globalPreload({ port }) once
GlobalPreload ==
  /\ preloadPort = Undefined
  /\ preloadPort' = "port"
  /\ last' = [op |-> "globalPreload"]
  /\ UNCHANGED <<agent, version, pkgs, registeredSpecifiers, onmessageSet, queue,
                 stack, nOps, nRegs, nPosted, firstWrite, resolvedUrls,
                 qualified>>
  /\ UNCHANGED unitVars

\* the host runs the code globalPreload returned: port.onmessage is assigned
PreloadCode ==
  /\ preloadPort # Undefined
  /\ ~onmessageSet
  /\ onmessageSet' = TRUE
  /\ last' = [op |-> "preloadCode"]
  /\ UNCHANGED <<agent, version, pkgs, registeredSpecifiers, preloadPort, queue,
                 stack, nOps, nRegs, nPosted, firstWrite, resolvedUrls,
                 qualified>>
  /\ UNCHANGED unitVars

\* the main thread delivers the oldest message to port.onmessage
PortOnMessage ==
  /\ onmessageSet
  /\ queue # <<>>
  /\ pkgs' = onmessage(Head(queue))
  /\ queue' = Tail(queue)
  /\ last' = [op |-> "onmessage", details |-> Head(queue), prePkgs |-> pkgs]
  /\ UNCHANGED <<agent, version, registeredSpecifiers, preloadPort, onmessageSet,
                 stack, nOps, nRegs, nPosted, firstWrite, resolvedUrls,
                 qualified>>
  /\ UNCHANGED unitVars

\* the host calls resolve for an import of the application
Resolve(specifier, context) ==
  /\ nOps < MaxOps
  /\ DoResolve(specifier, context)
  /\ nOps' = nOps + 1
  /\ UNCHANGED <<agent, version, pkgs, preloadPort, onmessageSet, stack, nRegs>>
  /\ UNCHANGED unitVars

\* the specifier first recorded for the url, if any
FirstSpecifier(url) ==
  IF url \in DOMAIN firstWrite THEN firstWrite[url] ELSE Undefined

\* a load call suspended at await import(url), with what held when it started
Frame(url, context, e) ==
  [url |-> url, context |-> context, specifier |-> e.specifier,
   nextArgs |-> e.nextArgs, pc |-> "import", props |-> <<>>,
   marked |-> Marked(url), first |-> FirstSpecifier(url)]

\* a completed load call; marked and first are those of its start
LoadRecord(url, context, marked, first, result, nextArgs) ==
  [op |-> "load", url |-> url, context |-> context, outcome |-> "returned",
   marked |-> marked, first |-> first, result |-> result, nextArgs |-> nextArgs]

\* the host calls load for a module of the application
Load(url, context) ==
  /\ nOps < MaxOps
  /\ stack = <<>>
  /\ LET e == load(url, context)
     IN  IF e.kind = "delegate"
         THEN /\ last' = LoadRecord(url, context, Marked(url), FirstSpecifier(url),
                                     e.result, e.nextArgs)
              /\ stack' = stack
         ELSE /\ last' = [op |-> "loadStart", url |-> url, context |-> context]
              /\ stack' = <<Frame(url, context, e)>>
  /\ nOps' = nOps + 1
  /\ UNCHANGED <<agent, version, pkgs, registeredSpecifiers, preloadPort,
                 onmessageSet, queue, nRegs, nPosted, firstWrite, resolvedUrls,
                 qualified>>
  /\ UNCHANGED unitVars

Top == stack[Len(stack)]
SetTop(f) == [stack EXCEPT ![Len(stack)] = f]

\* import(url) inside wrapEsmSource reaches the resolve hook, with this file
\* as the parent
ProbeResolve ==
  /\ stack # <<>>
  /\ Top.pc = "import"
  /\ DoResolve(Top.url, [parentURL |-> LoaderUrl])
  /\ stack' = SetTop([Top EXCEPT !.pc = "resolved"])
  /\ UNCHANGED <<agent, version, pkgs, preloadPort, onmessageSet, nOps, nRegs>>
  /\ UNCHANGED unitVars

\* ... and then the load hook, for the same url
ProbeLoad ==
  /\ stack # <<>>
  /\ Top.pc = "resolved"
  /\ Len(stack) < MaxDepth
  /\ LET context == [format |-> FormatOf(Top.url)]
         e == load(Top.url, context)
     IN  IF e.kind = "delegate"
         THEN /\ last' = LoadRecord(Top.url, context, Marked(Top.url),
                                     FirstSpecifier(Top.url), e.result, e.nextArgs)
              /\ stack' = SetTop([Top EXCEPT !.pc = "evaluated",
                                             !.props = ExportNames(Top.url)])
         ELSE /\ last' = [op |-> "loadStart", url |-> Top.url, context |-> context]
              /\ stack' = Append(stack, Frame(Top.url, context, e))
  /\ UNCHANGED <<agent, version, pkgs, registeredSpecifiers, preloadPort,
                 onmessageSet, queue, nOps, nRegs, nPosted, firstWrite, resolvedUrls,
                 qualified>>
  /\ UNCHANGED unitVars

\* the host has the module's namespace without running the hooks for it
ProbeServed ==
  /\ stack # <<>>
  /\ Top.pc \in {"import", "resolved"}
  /\ stack' = SetTop([Top EXCEPT !.pc = "evaluated", !.props = ExportNames(Top.url)])
  /\ last' = [op |-> "probeServed", url |-> Top.url]
  /\ UNCHANGED <<agent, version, pkgs, registeredSpecifiers, preloadPort,
                 onmessageSet, queue, nOps, nRegs, nPosted, firstWrite, resolvedUrls,
                 qualified>>
  /\ UNCHANGED unitVars

ExportedNames(source) == [i \in 1..Len(source.exports) |-> source.exports[i].exported]

\* wrapEsmSource resumes with the namespace and load returns the override; a
\* load made for a probe hands the rewritten module to the import waiting for it
LoadReturn ==
  /\ stack # <<>>
  /\ Top.pc = "evaluated"
  /\ LET result == loadOverride(Top.url, Top.specifier, Top.props)
         rest == SubSeq(stack, 1, Len(stack) - 1)
     IN  /\ last' = LoadRecord(Top.url, Top.context, Top.marked, Top.first,
                                result, Top.nextArgs)
         /\ stack' = IF rest = <<>> THEN rest
                     ELSE [rest EXCEPT ![Len(rest)] =
                             [@ EXCEPT !.pc = "evaluated",
                                       !.props = ExportedNames(result.source)]]
  /\ UNCHANGED <<agent, version, pkgs, registeredSpecifiers, preloadPort,
                 onmessageSet, queue, nOps, nRegs, nPosted, firstWrite, resolvedUrls,
                 qualified>>
  /\ UNCHANGED unitVars

Next ==
  \/ \E opts \in RegisterInputs : Register(opts)
  \/ GlobalPreload
  \/ PreloadCode
  \/ PortOnMessage
  \/ \E specifier \in Specifiers, context \in ResolveContexts : Resolve(specifier, context)
  \/ \E url \in LoadUrls, context \in LoadContexts : Load(url, context)
  \/ ProbeResolve
  \/ ProbeLoad
  \/ ProbeServed
  \/ LoadReturn

Spec == Init /\ [][Next]_vars

\* ------------------------------------------------------ context manager
\* values config.feature_flag.new_async_context can hold, as JavaScript literals
FlagValues == {"true", "false", "undefined", "null", "1", "0"}

Configs == {[feature_flag |-> [new_async_context |-> v]] : v \in FlagValues}

\* what if (value) takes as true
Truthy(value) == value \notin {"false", "undefined", "null", "0", "''", "NaN"}

\* variant: only the boolean true selects the async-local implementation
createContextManager_strictTrue(config) ==
  IF config.feature_flag.new_async_context = "true"
  THEN [required |-> <<"./async-local-context-manager">>,
        constructed |-> <<"AsyncLocalContextManager">>,
        result |-> [class |-> "AsyncLocalContextManager"]]
  ELSE [required |-> <<"./legacy-context-manager">>,
        constructed |-> <<"LegacyContextManager">>,
        result |-> [class |-> "LegacyContextManager"]]

\* createContextManager(config): the modules it requires, the constructors it
\* runs, and the instance it returns
createContextManager(config) ==
  IF Truthy(config.feature_flag.new_async_context)
  THEN [required |-> <<"./async-local-context-manager">>,
        constructed |-> <<"AsyncLocalContextManager">>,
        result |-> [class |-> "AsyncLocalContextManager"]]
  ELSE [required |-> <<"./legacy-context-manager">>,
        constructed |-> <<"LegacyContextManager">>,
        result |-> [class |-> "LegacyContextManager"]]

\* a caller creates a context manager from a configuration
CreateContextManager(config) ==
  /\ Len(created) < MaxCalls
  /\ created' = Append(created, [config |-> config, call |-> createContextManager(config)])
  /\ UNCHANGED <<loaderVars, objVars>>

InitCM ==
  /\ Init
  /\ agent
  /\ version = <<18, 0, 0>>

NextCM == \E config \in Configs : CreateContextManager(config)

SpecCM == InitCM /\ [][NextCM]_vars

\* --------------------------------------------------- descriptor objects
\* the descriptors the application builds, and the assignments it makes later
ObjInputs == {Desc("pg", "onRequire", Undefined), Desc("mysql", "onRequire", "onResolved")}
Assignments ==
  {<<"moduleName", "mysql">>, <<"onRequire", "otherOnRequire">>,
   <<"specifier", "changed">>}

\* the notices the main thread may receive for the CommonJS module
ObjNotices ==
  {[specifier |-> "pg", filePath |-> FilePaths[PgUrl]],
   [specifier |-> PgPath, filePath |-> FilePaths[PgUrl]]}

NoObject == 0

\* the sequence stored under a key, empty when the key is absent
Lookup(p, k) == IF k \in DOMAIN p THEN p[k] ELSE <<>>

\* pkgs[key].push(id)
PushRef(t, key, id) ==
  IF key \in DOMAIN t THEN [t EXCEPT ![key] = Append(@, id)] ELSE t @@ (key :> <<id>>)

\* variant: the object passed in is pushed itself
registerObject_sameObject(h, t, id) ==
  IF ~hasValidRegisterOptions(h[id]) THEN [heap |-> h, refs |-> t, stored |-> NoObject]
  ELSE [heap |-> h, refs |-> PushRef(t, h[id].moduleName, id), stored |-> id]

\* registerInstrumentation(opts) with opts the object id: { ...opts } is a new
\* object holding the fields opts has at the call
registerObject(h, t, id) ==
  IF ~hasValidRegisterOptions(h[id]) THEN [heap |-> h, refs |-> t, stored |-> NoObject]
  ELSE [heap |-> Append(h, h[id]),
        refs |-> PushRef(t, h[id].moduleName, Len(h) + 1),
        stored |-> Len(h) + 1]

\* the forEach of port.onmessage over the objects listed in ids
RECURSIVE forEachObject(_, _, _, _, _, _)
forEachObject(h, t, ids, i, specifier, filePath) ==
  IF i > Len(ids) THEN [heap |-> h, refs |-> t]
  ELSE LET h1 == [h EXCEPT ![ids[i]].moduleName = filePath,
                           ![ids[i]].specifier = specifier]
           r == registerObject(h1, t, ids[i])
       IN  forEachObject(r.heap, r.refs, ids, i + 1, specifier, filePath)

\* port.onmessage on the objects: [...instrumentationDefinition] lists the ids
onmessageObject(h, t, details) ==
  LET instrumentationName == getInstrumentationNameFromModuleName(details.specifier)
  IN  IF instrumentationName \notin DOMAIN t THEN [heap |-> h, refs |-> t]
      ELSE forEachObject(h, t, t[instrumentationName], 1, details.specifier,
                         details.filePath)

\* the application builds a descriptor object
NewDescriptor(d) ==
  /\ Len(heap) < MaxObjs
  /\ heap' = Append(heap, d)
  /\ appObjs' = appObjs \cup {Len(heap) + 1}
  /\ objLast' = [op |-> "new", id |-> Len(heap) + 1, preHeap |-> heap]
  /\ UNCHANGED <<refs, nMut, stores, loaderVars, created>>

\* the application passes one of its objects to registerInstrumentation
RegisterObject(id) ==
  /\ Len(heap) < MaxObjs
  /\ LET r == registerObject(heap, refs, id)
     IN  /\ heap' = r.heap
         /\ refs' = r.refs
         /\ stores' = IF r.stored = NoObject THEN stores
                      ELSE stores \cup {<<id, r.stored>>}
         /\ objLast' = [op |-> "register", id |-> id, stored |-> r.stored,
                        preHeap |-> heap]
  /\ UNCHANGED <<appObjs, nMut, loaderVars, created>>

\* the application assigns to a field of one of its objects
MutateObject(id, field, value) ==
  /\ nMut < MaxMutations
  /\ heap[id][field] # value
  /\ heap' = [heap EXCEPT ![id] = [@ EXCEPT ![field] = value]]
  /\ nMut' = nMut + 1
  /\ objLast' = [op |-> "mutate", id |-> id, stored |-> NoObject, preHeap |-> heap]
  /\ UNCHANGED <<refs, appObjs, stores, loaderVars, created>>

\* the main thread handles a notice
NoticeObject(details) ==
  /\ Len(heap) + Len(Lookup(refs,
        getInstrumentationNameFromModuleName(details.specifier))) <= MaxObjs
  /\ LET r == onmessageObject(heap, refs, details)
     IN  /\ heap' = r.heap
         /\ refs' = r.refs
  /\ objLast' = [op |-> "notice", id |-> NoObject, stored |-> NoObject,
                 preHeap |-> heap]
  /\ UNCHANGED <<appObjs, nMut, stores, loaderVars, created>>

InitObj ==
  /\ Init
  /\ agent
  /\ version = <<18, 0, 0>>

NextObj ==
  \/ \E d \in ObjInputs : NewDescriptor(d)
  \/ \E id \in appObjs : RegisterObject(id)
  \/ \E id \in appObjs, a \in Assignments : MutateObject(id, a[1], a[2])
  \/ \E details \in ObjNotices : NoticeObject(details)

SpecObj == InitObj /\ [][NextObj]_vars

\* ------------------------------------------------------------ properties
\* number of entries of an array equal to d
Count(seq, d) == Cardinality({i \in 1..Len(seq) : seq[i] = d})

\* the call just completed was made by the host or the application, not by
\* this file's own import()
Unguarded(context) ==
  ~(context # NoContext /\ context.parentURL = LoaderUrl)

\* C1: after registerInstrumentation(d) for a valid descriptor d that the
\* sequence under d.moduleName did not hold, that sequence holds d exactly
\* once and the sequences under all other module names are unchanged.
C1_RegisterStoresOnce ==
  (/\ last.op = "register"
   /\ last.opts \in ValidInputs
   /\ Count(Lookup(last.prePkgs, last.opts.moduleName), last.opts) = 0)
  => /\ Count(Lookup(pkgs, last.opts.moduleName), last.opts) = 1
     /\ \A k \in (DOMAIN pkgs \cup DOMAIN last.prePkgs) \ {last.opts.moduleName} :
          /\ k \in DOMAIN pkgs
          /\ k \in DOMAIN last.prePkgs
          /\ pkgs[k] = last.prePkgs[k]

\* a valid descriptor was registered under a name that already had another
\* descriptor, next to entries under a different name
C1_Witness ==
  /\ last.op = "register"
  /\ last.opts \in ValidInputs
  /\ Count(Lookup(last.prePkgs, last.opts.moduleName), last.opts) = 0
  /\ Count(Lookup(pkgs, last.opts.moduleName), last.opts) = 1
  /\ DOMAIN last.prePkgs # {}

\* C2: registerInstrumentation with an invalid descriptor (no options, missing
\* or empty moduleName, no hook) returns normally and leaves the whole registry
\* table as it was.
C2_InvalidDropped ==
  (last.op = "register" /\ last.opts \in InvalidInputs)
  => /\ last.outcome = "returned"
     /\ pkgs = last.prePkgs
     /\ DOMAIN pkgs = DOMAIN last.prePkgs

\* a descriptor without hooks was offered for a name that is registered
C2_Witness ==
  /\ last.op = "register"
  /\ last.opts = Desc("pg", Undefined, Undefined)
  /\ "pg" \in DOMAIN last.prePkgs
  /\ pkgs = last.prePkgs

\* C3: the value a resolve call returns is the value the next resolver
\* returned for the same specifier and context, on every branch.
C3_ResolveReturnsNextResult ==
  (last.op = "resolve" /\ last.outcome = "returned")
  => /\ last.result = nextResolve(last.specifier, last.context)
     /\ last.nextArgs = << <<last.specifier, last.context>> >>

\* a resolve call that wrote a Resolution Record has returned
C3_Witness ==
  /\ last.op = "resolve"
  /\ last.outcome = "returned"
  /\ DOMAIN registeredSpecifiers # DOMAIN last.preRS
  /\ last.result = nextResolve(last.specifier, last.context)

\* the running Node.js is older than v16.12.0
UnsupportedRuntime == version[1] < 16 \/ (version[1] = 16 /\ version[2] < 12)

\* C4: without an agent or on an unsupported runtime, every resolve and load
\* call returns the next hook's result, the registry is not read, no Resolution
\* Record exists and no notice has been posted.
C4_DisabledPassThrough ==
  (~agent \/ UnsupportedRuntime)
  => /\ registeredSpecifiers = EmptyTable
     /\ nPosted = 0
     /\ queue = <<>>
     /\ stack = <<>>
     /\ last.op = "resolve" =>
          /\ last.outcome = "returned"
          /\ last.result = nextResolve(last.specifier, last.context)
          /\ ~last.readRegistry
     /\ last.op = "load" => last.result = nextLoad(last.url, last.context)
     /\ last.op \notin {"onmessage", "loadStart", "probeServed"}

\* on an unsupported runtime with an agent, a module whose name is registered
\* was resolved by the application and then loaded
C4_Witness ==
  /\ agent
  /\ UnsupportedRuntime
  /\ "mysql" \in DOMAIN pkgs
  /\ MysqlUrl \in resolvedUrls
  /\ last.op = "load"
  /\ last.url = MysqlUrl
  /\ last.result = nextLoad(MysqlUrl, last.context)

\* the value is the override load builds from a rewritten source
IsOverride(result) ==
  /\ DOMAIN result = {"format", "source", "shortCircuit"}
  /\ result.format = "module"
  /\ result.shortCircuit = TRUE
  /\ "importShim" \in DOMAIN result.source

\* C5: a load call either calls the next loader once with its own url and
\* context and returns that result, exactly when the url had no Resolution
\* Record marked hasNrInstrumentation, or returns an override (format
\* 'module', rewritten source, shortCircuit) without calling the next loader,
\* exactly when it had one.
C5_LoadDelegatesOrOverrides ==
  last.op = "load"
  => \/ /\ ~last.marked
        /\ last.nextArgs = << <<last.url, last.context>> >>
        /\ last.result = nextLoad(last.url, last.context)
     \/ /\ last.marked
        /\ last.nextArgs = <<>>
        /\ IsOverride(last.result)

\* a load call for a marked url has returned its override
C5_Witness ==
  /\ last.op = "load"
  /\ last.marked
  /\ IsOverride(last.result)

\* the record table marks the url with hasNrInstrumentation
MarkedIn(table, url) == url \in DOMAIN table /\ table[url].hasNrInstrumentation

\* the last call was a resolve call that went past the pass-through test
HandledResolve ==
  /\ last.op = "resolve"
  /\ agent
  /\ ~UnsupportedRuntime
  /\ Unguarded(last.context)

\* the module record the next resolver gave to the last resolve call
LastResolved == nextResolve(last.specifier, last.context)

\* the notice the last resolve call has to post for a CommonJS module
LastNotice ==
  [specifier |-> last.specifier, resolvedModule |-> LastResolved,
   filePath |-> FilePaths[LastResolved.url]]

\* C6 as claimed: for a url not yet recorded, a CommonJS module with a
\* registered descriptor gets a Resolution Record, and an ES module gets a
\* notice and no record.
C6_Original ==
  (HandledResolve /\ LastResolved.url \notin DOMAIN last.preRS)
  => /\ (/\ LastResolved.format = "commonjs"
         /\ getInstrumentationNameFromModuleName(last.specifier) \in DOMAIN pkgs)
        => MarkedIn(registeredSpecifiers, LastResolved.url)
     /\ LastResolved.format = "module"
        => /\ LastResolved.url \notin DOMAIN registeredSpecifiers
           /\ Len(queue) = Len(last.preQueue) + 1

\* C6: for a url not yet recorded, an ES module ('module') whose specifier has
\* a registered descriptor gets a Resolution Record marked hasNrInstrumentation
\* and no notice; a CommonJS module gets no record and a notice with the
\* specifier, the resolved module and the file path, except that before
\* globalPreload has run the call raises and posts nothing.
C6_RecordForModuleNoticeForCommonJs ==
  (HandledResolve /\ LastResolved.url \notin DOMAIN last.preRS)
  => /\ (/\ LastResolved.format = "module"
         /\ getInstrumentationNameFromModuleName(last.specifier) \in DOMAIN pkgs)
        => /\ registeredSpecifiers =
                last.preRS @@ (LastResolved.url :>
                                 [specifier |-> last.specifier,
                                  hasNrInstrumentation |-> TRUE])
           /\ queue = last.preQueue
     /\ LastResolved.format = "commonjs"
        => /\ registeredSpecifiers = last.preRS
           /\ preloadPort # Undefined
                => last.outcome = "returned" /\ queue = Append(last.preQueue, LastNotice)
           /\ preloadPort = Undefined
                => last.outcome = "threw" /\ queue = last.preQueue

\* a CommonJS module with a registered descriptor was resolved and its notice
\* was posted
C6_Witness ==
  /\ HandledResolve
  /\ last.specifier = "pg"
  /\ "pg" \in DOMAIN pkgs
  /\ registeredSpecifiers = last.preRS
  /\ queue = Append(last.preQueue, LastNotice)

\* C7: after the main-thread handler processed a notice, every descriptor that
\* was stored before is unchanged and keeps the moduleName of its key, and the
\* table differs only by entries appended under the file-path key.
C7_HandlerOnlyAppends ==
  last.op = "onmessage"
  => /\ \A k \in DOMAIN last.prePkgs :
          /\ k \in DOMAIN pkgs
          /\ Len(pkgs[k]) >= Len(last.prePkgs[k])
          /\ \A i \in 1..Len(last.prePkgs[k]) : pkgs[k][i] = last.prePkgs[k][i]
     /\ \A k \in DOMAIN pkgs \ {last.details.filePath} :
          k \in DOMAIN last.prePkgs /\ pkgs[k] = last.prePkgs[k]

\* C8: a second resolve call for the same specifier, and so the same url,
\* right after a first one that was handled and returned, posts no notice and
\* writes no Resolution Record.
C8_SecondResolveDoesNothing ==
  [][(/\ HandledResolve
      /\ last.outcome = "returned"
      /\ nOps' = nOps + 1
      /\ last'.op = "resolve"
      /\ last'.specifier = last.specifier
      /\ Unguarded(last'.context))
     => /\ nPosted' = nPosted
        /\ queue' = queue
        /\ registeredSpecifiers' = registeredSpecifiers]_vars

\* C9 as claimed: a resolve call leaves every url that an earlier resolve call
\* yielded with the classification it had after that earlier call.
C9_Original ==
  [][\A u \in resolvedUrls :
       MarkedIn(registeredSpecifiers', u) <=> MarkedIn(registeredSpecifiers, u)]_vars

\* C9: a url is never taken from marked to unmarked: once a resolve call left
\* its Resolution Record present, the record is present after every later
\* call; and two resolve calls with the same specifier and context, with no
\* call between them, leave the url with the same classification.
C9_ClassificationKept ==
  [][/\ \A u \in DOMAIN registeredSpecifiers :
          MarkedIn(registeredSpecifiers, u) => MarkedIn(registeredSpecifiers', u)
     /\ (/\ last.op = "resolve"
         /\ last.outcome = "returned"
         /\ nOps' = nOps + 1
         /\ last'.op = "resolve"
         /\ last'.specifier = last.specifier
         /\ last'.context = last.context)
        => (MarkedIn(registeredSpecifiers', LastResolved.url)
              <=> MarkedIn(registeredSpecifiers, LastResolved.url))]_vars

\* a url that already had its record was resolved again, by another specifier,
\* and is still marked
C9_Witness ==
  /\ HandledResolve
  /\ last.outcome = "returned"
  /\ LastResolved.url \in DOMAIN last.preRS
  /\ last.preRS[LastResolved.url].specifier # last.specifier
  /\ MarkedIn(registeredSpecifiers, LastResolved.url)

\* C10: a load call that starts once a Resolution Record was written for its
\* url returns the override built with the specifier of the first write, and
\* the record of every written url still holds that specifier.
C10_LoadSeesFirstRecord ==
  /\ \A u \in DOMAIN firstWrite :
        /\ MarkedIn(registeredSpecifiers, u)
        /\ registeredSpecifiers[u].specifier = firstWrite[u]
  /\ (last.op = "load" /\ last.first # Undefined)
     => /\ IsOverride(last.result)
        /\ last.result.source.wrapModule.specifier = last.first

\* the url was recorded under 'mysql2', resolved again as 'mysql' and loaded
C10_Witness ==
  /\ last.op = "load"
  /\ last.first = "mysql2"
  /\ "mysql" \in DOMAIN pkgs
  /\ nOps >= 4
  /\ IsOverride(last.result)
  /\ last.result.source.wrapModule.specifier = "mysql2"

\* the elements of a sequence
Range(seq) == {seq[i] : i \in 1..Len(seq)}

\* C11: the source load returns for an instrumented url imports the shim,
\* imports the original module by its url, wraps it with the recorded
\* specifier and the file path, and has exactly one forwarding export for each
\* export name of the original module and none for any other name.
C11_RewrittenSourceShape ==
  (last.op = "load" /\ IsOverride(last.result))
  => LET source == last.result.source
         names == ExportNames(last.url)
     IN  /\ source.importShim = EsmShimHref
         /\ source.importOriginal = last.url
         /\ source.wrapModule = [specifier |-> last.first,
                                 trimmedUrl |-> FilePaths[last.url]]
         /\ \A name \in Range(names) :
              Cardinality({i \in 1..Len(source.exports) :
                             source.exports[i].exported = name}) = 1
         /\ \A i \in 1..Len(source.exports) :
              /\ source.exports[i].exported \in Range(names)
              /\ source.exports[i].value = <<"_wrappedModule", source.exports[i].exported>>
              /\ source.exports[i].local = <<"_", source.exports[i].exported>>

\* an override was returned for the module with two exports, default included
C11_Witness ==
  /\ last.op = "load"
  /\ IsOverride(last.result)
  /\ last.url = MysqlUrl
  /\ Len(last.result.source.exports) = 2

\* C12: a resolve call never raises: in every reachable state, the one before
\* globalPreload has set the port included, it returns the next resolver's
\* result.
C12_ResolveNeverRaises ==
  last.op = "resolve"
  => /\ last.outcome = "returned"
     /\ last.result = nextResolve(last.specifier, last.context)

\* the flag values that count as set
FlagIsSet(config) == config.feature_flag.new_async_context \in {"true", "1"}

\* C13: createContextManager returns an instance of the async-local
\* implementation when feature_flag.new_async_context is set and of the legacy
\* implementation otherwise; each call constructs exactly one instance, the
\* one it returns, and two calls with the same flag value choose the same
\* implementation.
C13_FlagSelectsImplementation ==
  /\ \A i \in 1..Len(created) :
       LET c == created[i]
       IN  /\ Len(c.call.constructed) = 1
           /\ c.call.constructed[1] = c.call.result.class
           /\ c.call.result.class =
                IF FlagIsSet(c.config) THEN "AsyncLocalContextManager"
                ELSE "LegacyContextManager"
  /\ \A i, j \in 1..Len(created) :
       created[i].config = created[j].config
       => created[i].call.result.class = created[j].call.result.class

\* both implementations have been chosen, one of them twice for the same flag,
\* and one call had a set flag that is not the boolean true
C13_Witness ==
  /\ \E i, j \in 1..Len(created) :
       /\ i # j
       /\ created[i].config = created[j].config
       /\ created[i].call.result.class = "LegacyContextManager"
  /\ \E i \in 1..Len(created) :
       /\ created[i].config.feature_flag.new_async_context = "1"
       /\ created[i].call.result.class = "AsyncLocalContextManager"

\* the notices still waiting on the port for the url
PendingNotices(url) ==
  {i \in 1..Len(queue) : queue[i].resolvedModule.url = url}

\* C14: every notice posted for a commonjs module has been handled by the main
\* thread before the load hook runs for the same url: no load of a url starts
\* or completes while a notice for it is still waiting on the port.
C14_NoticeHandledBeforeLoad ==
  last.op \in {"load", "loadStart"} => PendingNotices(last.url) = {}

\* the instrumentation name of the notice handled last, and the descriptors
\* the registry held under it when the handler started
NoticeName == getInstrumentationNameFromModuleName(last.details.specifier)
NoticeOriginals == Lookup(last.prePkgs, NoticeName)

\* C15: handling a notice {specifier, filePath} while the registry holds n
\* descriptors under the specifier's instrumentation name makes the sequence
\* under filePath longer by exactly n descriptors, in the order of their
\* originals, each with moduleName filePath, the notice's specifier and the
\* hooks of its original; with n = 0 or an unknown name the registry is
\* unchanged. The handler ends with exactly n additions also when filePath is
\* the key it reads from.
C15_NoticeCopiesDescriptors ==
  last.op = "onmessage"
  => LET n == Len(NoticeOriginals)
         filePath == last.details.filePath
         before == Lookup(last.prePkgs, filePath)
         after == Lookup(pkgs, filePath)
     IN  IF n = 0 THEN pkgs = last.prePkgs
         ELSE /\ Len(after) = Len(before) + n
              /\ \A i \in 1..n :
                   LET copy == after[Len(before) + i]
                   IN  /\ copy.moduleName = filePath
                       /\ copy.specifier = last.details.specifier
                       /\ copy.onRequire = NoticeOriginals[i].onRequire
                       /\ copy.onResolved = NoticeOriginals[i].onResolved

\* a notice was handled whose file path is the key its originals are read from
C15_Witness ==
  /\ last.op = "onmessage"
  /\ last.details.filePath = NoticeName
  /\ Len(NoticeOriginals) >= 1
  /\ Len(Lookup(pkgs, NoticeName)) = 2 * Len(NoticeOriginals)

\* C16: a resolve call whose parent url lies inside this file calls the next
\* resolver once with its own arguments, returns that result and does nothing
\* else: no registry read, no Resolution Record written, no notice posted,
\* whatever the resolved format is.
C16_GuardedResolvePassesThrough ==
  (last.op = "resolve" /\ ~Unguarded(last.context))
  => /\ last.outcome = "returned"
     /\ last.result = LastResolved
     /\ last.nextArgs = << <<last.specifier, last.context>> >>
     /\ ~last.readRegistry
     /\ registeredSpecifiers = last.preRS
     /\ queue = last.preQueue

\* with the agent on a supported runtime, a guarded resolve met an ES module
\* with a registered descriptor and no Resolution Record yet
C16_Witness ==
  /\ last.op = "resolve"
  /\ ~Unguarded(last.context)
  /\ agent
  /\ ~UnsupportedRuntime
  /\ LastResolved.format = "module"
  /\ getInstrumentationNameFromModuleName(last.specifier) \in DOMAIN pkgs
  /\ LastResolved.url \notin DOMAIN last.preRS

\* C17: the probe import a load call makes for a marked url is not rewritten
\* itself and starts no further probe: while a load call is suspended in its
\* probe, no second load call for a rewrite is started.
C17_ProbeStartsNoFurtherProbe ==
  /\ Len(stack) <= 1
  /\ (last.op = "loadStart" => stack = <<Frame(last.url, last.context,
                                               load(last.url, last.context))>>)

\* s is an initial part of t
IsPrefix(s, t) == Len(s) <= Len(t) /\ SubSeq(t, 1, Len(s)) = s

\* C18: for every module name the stored sequence only grows at its end: no
\* register call and no notice handling removes, reorders or replaces a stored
\* descriptor, so the sequence before a step is a prefix of the sequence after.
C18_SequencesOnlyGrow ==
  [][\A name \in DOMAIN pkgs :
       /\ name \in DOMAIN pkgs'
       /\ IsPrefix(pkgs[name], pkgs'[name])]_vars

\* C19: every Resolution Record is marked, belongs to a url for which a
\* resolve call from outside this file returned format 'module' while the
\* registry held a descriptor for its specifier, and stores the specifier of
\* the first such call; a record is never overwritten or removed, and no url
\* that resolved with another format has a record.
C19_RecordsOnlyForInstrumentedModules ==
  [][/\ \A u \in DOMAIN registeredSpecifiers' :
          /\ registeredSpecifiers'[u].hasNrInstrumentation
          /\ u \in DOMAIN qualified'
          /\ registeredSpecifiers'[u].specifier = qualified'[u]
     /\ \A u \in DOMAIN registeredSpecifiers :
          /\ u \in DOMAIN registeredSpecifiers'
          /\ registeredSpecifiers'[u] = registeredSpecifiers[u]
     /\ \A u \in resolvedUrls' :
          FormatOf(u) # "module" => u \notin DOMAIN registeredSpecifiers']_vars

\* a recorded url was resolved again under another specifier, after a CommonJS
\* module was resolved too
C19_Witness ==
  /\ HandledResolve
  /\ LastResolved.url \in DOMAIN registeredSpecifiers
  /\ registeredSpecifiers[LastResolved.url].specifier # last.specifier
  /\ Qualifies(last.specifier, last.context)
  /\ PgUrl \in resolvedUrls

\* the <<key, index>> positions of the registry, and the objects stored there
Positions == {p \in (DOMAIN refs) \X (1..MaxObjs) : p[2] <= Len(refs[p[1]])}
StoredIds == {refs[p[1]][p[2]] : p \in Positions}

\* C20: registerInstrumentation stores a copy of the object it is given: the
\* stored object is a new one with the fields the passed object had at the
\* call, an assignment the application makes later to its object changes no
\* stored descriptor, and every registration, also of the same object, has a
\* stored object of its own.
C20_StoresIndependentCopy ==
  /\ \A p, q \in Positions : p # q => refs[p[1]][p[2]] # refs[q[1]][q[2]]
  /\ StoredIds \cap appObjs = {}
  /\ \A s \in stores : s[1] # s[2] /\ s[2] \in StoredIds
  /\ (objLast.op = "register" /\ objLast.stored # NoObject)
     => heap[objLast.stored] = objLast.preHeap[objLast.id]
  /\ objLast.op = "mutate"
     => \A id \in StoredIds : heap[id] = objLast.preHeap[id]

\* the application changed an object it had registered twice
C20_Witness ==
  /\ objLast.op = "mutate"
  /\ Cardinality({s \in stores : s[1] = objLast.id}) = 2
  /\ heap[objLast.id] # objLast.preHeap[objLast.id]
  /\ \A s \in stores : s[1] = objLast.id => heap[s[2]] # heap[objLast.id]

====
